---- MODULE Spec2Model ----
(***************************************************************************)
(* McapIterableSource: the facade that probes an MCAP source (local file   *)
(* or url) for a usable index and delegates to the indexed or to the       *)
(* streaming iterable source.                                              *)
(*   packages/studio-base/src/players/IterablePlayer/Mcap/                 *)
(*     McapIterableSource.ts                                               *)
(* Every `await` of initialize() is a suspension point: one action per     *)
(* continuation. Several initialize() calls on one instance may be in      *)
(* flight at once, and messageIterator()/getBackfillMessages() may be      *)
(* called at any moment.                                                   *)
(*                                                                         *)
(* The indexed delegate behind the facade (the indexed reader's iteration  *)
(* and backfill) has its own variables and its own specification,          *)
(* SpecReader; the facade's variables stay as constructed there, and the   *)
(* reader's stay idle under Spec.                                          *)
(*                                                                         *)
(* The Image panel's message store (panels/Image/index.tsx) is a third     *)
(* part with its own variables and specification, SpecImage: the zustand   *)
(* store actions frame, setImageTopic, setAnnotationTopics, setSynchronize *)
(* and clear. frame() is followed through its loop, one event of           *)
(* currentFrame per step; no other store action runs before it returns.    *)
(*                                                                         *)
(* The panel layout (UnconnectedPanelLayout) is a fourth part with its own *)
(* variables and specification, SpecLayout: a render of the component, the *)
(* renderTile calls the mosaic makes in that render, the commit and the    *)
(* passive effect that clears the component cache.                         *)
(***************************************************************************)
EXTENDS Integers, Sequences, FiniteSets, TLC

\* ---- bounds -------------------------------------------------------------
\* initialize() calls made on the one instance
MaxCalls == 2
\* chunk indexes / channels the indexed reader may report
MaxChunks == 1
MaxChannels == 1
\* distinct argument values handed to messageIterator/getBackfillMessages
MaxArg == 1
\* message records in an indexed file, and the chunks they are grouped in
MaxRecs == 2
MaxFileChunks == 2
\* log times are 0..MaxTime
MaxTime == 1
\* channel ids are 1..MaxChan
MaxChan == 2
\* header stamps of image and annotation messages are 0..MaxStamp half seconds
MaxStamp == 1
\* panel catalogs the provider hands out one after the other
MaxCatalog == 2
\* panel modules a catalog may name for a panel type
MaxModule == 1

VARIABLES
    src,         \* the source descriptor and what its bytes / server do
    calls,       \* calls[c]: the c-th initialize() invocation
    impls,       \* every delegate constructed so far, in construction order
    sourceImpl,  \* this._sourceImpl: 0 (undefined) or an index into impls
    logged,      \* number of log.error(err) calls so far
    lastOp       \* the last messageIterator()/getBackfillMessages() call;
                 \* tick flips at every call, so that each call is a step

VARIABLES
    file,        \* the indexed file the reader was initialised on
    rd           \* the last call made on the indexed delegate: an iteration
                 \* (with what it has yielded so far) or a backfill

facadeVars == <<src, calls, impls, sourceImpl, logged, lastOp>>

readerVars == <<file, rd>>

VARIABLES
    store,       \* the Image panel's zustand store: the ImagePanelState fields
    shared,      \* the stamp of the tree item whose Map object is also
                 \* store.annotationsByTopic; NoStamp when it is a Map of its own
    act          \* the frame() call under way and what it found so far

imageVars == <<store, shared, act>>

\* what the facade's actions leave alone
VARIABLES
    panelCatalog,         \* the value usePanelCatalog() gives
    panelComponentCache,  \* panelComponentCache.current
    render,               \* the render of the component under way or done last
    effect                \* the effect of lines 301-303: its deps, and whether
                          \* it is scheduled

layoutVars == <<panelCatalog, panelComponentCache, render, effect>>

restVars == <<file, rd, store, shared, act, panelCatalog, panelComponentCache, render, effect>>

vars == <<src, calls, impls, sourceImpl, logged, lastOp, file, rd, store, shared, act,
          panelCatalog, panelComponentCache, render, effect>>

CallIds == 1..MaxCalls

\* ---- error values -------------------------------------------------------
ErrUninitialized == "Invariant: uninitialized"
ErrNotReadable == "NotReadableError"
ErrOpen == "RemoteFileReadable.open failed"
ErrHandlers == "loadDecompressHandlers failed"
ErrIndex == "McapIndexedReader.Initialize failed"
ErrFetch == "fetch failed"
ErrNoBody == "Unable to stream remote file."
ErrNoLength == "Remote file is missing Content-Length header."
ErrImplInit == "delegate initialize failed"

\* ---- the source ---------------------------------------------------------
\* type McapSource, and the answers of the collaborators for this source:
\*   readOk     file.slice(0, 1).arrayBuffer() resolves
\*   openOk     RemoteFileReadable.open() resolves
\*   handlersOk loadDecompressHandlers() resolves
\*   indexOk    McapIndexedReader.Initialize() resolves
\*   nChunks    reader.chunkIndexes.length
\*   nChannels  reader.channelsById.size
\*   fetchOk    fetch(url) resolves
\*   hasBody    response.body is set
\*   hasLength  response.headers has a content-length
\*   implInitOk the delegate's own initialize() resolves
\* These are properties of the source: every initialize() call made on the
\* instance meets the same answers. Fields that the code never reads for a
\* source are fixed, so that a source is listed once.
McapSource ==
    { s \in [type : {"file", "url"},
             readOk : BOOLEAN, openOk : BOOLEAN, handlersOk : BOOLEAN,
             indexOk : BOOLEAN, nChunks : 0..MaxChunks, nChannels : 0..MaxChannels,
             fetchOk : BOOLEAN, hasBody : BOOLEAN, hasLength : BOOLEAN,
             implInitOk : BOOLEAN] :
        /\ s.type = "file" => (s.openOk /\ s.fetchOk)
        /\ ~s.fetchOk => (s.hasBody /\ s.hasLength)
        /\ s.type = "url" => s.readOk
        /\ ~s.indexOk => (s.nChunks = 0 /\ s.nChannels = 0) }

NoCall ==
    [pc |-> "idle", reader |-> "unset", tried |-> FALSE, fetched |-> FALSE,
     streamed |-> FALSE, impl |-> 0, error |-> "", result |-> 0]

NoOp == [tick |-> 0, op |-> "none", arg |-> 0, how |-> "none", outcome |-> "none",
         to |-> 0, passed |-> 0]

\* the facade as constructed, on a source where every step would succeed
FacadeIdle ==
    /\ src = [type |-> "file", readOk |-> TRUE, openOk |-> TRUE, handlersOk |-> TRUE,
              indexOk |-> TRUE, nChunks |-> MaxChunks, nChannels |-> MaxChannels,
              fetchOk |-> TRUE, hasBody |-> TRUE, hasLength |-> TRUE,
              implInitOk |-> TRUE]
    /\ calls = [c \in CallIds |-> NoCall]
    /\ impls = <<>>
    /\ sourceImpl = 0
    /\ logged = 0
    /\ lastOp = NoOp

\* no call made on the reader yet
NoRead ==
    [op |-> "none", args |-> [filter |-> FALSE, topics |-> {}, start |-> 0, end |-> 0],
     next |-> 0, out |-> <<>>, status |-> "none", failedAt |-> 0, afterError |-> FALSE,
     after |-> [full |-> FALSE, out |-> <<>>]]

NoFile == [recs |-> <<>>, chunkOf |-> <<>>, known |-> [k \in 1..MaxFileChunks |-> TRUE]]

ReaderIdle == file = NoFile /\ rd = NoRead

\* undefined, where a Time is expected
NoStamp == [sec |-> -1, nsec |-> 0]

\* undefined, where a NormalizedImageMessage is expected
NoImage == [stamp |-> NoStamp]

\* new Map()
EmptyMap == [x \in {} |-> <<>>]

\* new AVLTree(compareTime)
EmptyTree == [x \in {} |-> [image |-> NoImage, annotationsByTopic |-> EmptyMap]]

\* what the store publishes: selectPublicState, lines 98-102
Published(state) == [image |-> state.image, annotationsByTopic |-> state.annotationsByTopic]

\* no frame() under way. Of a frame() under way: pc, where it is; was, what
\* the store published when it began; valid, oldest and searched, what the
\* search found and the stamps of the tree it went through; lost, whether an
\* event with an image or annotations, stamped not older than the entry
\* published, was not reached; copied, whether addMessages has made newState
NoAction ==
    [pc |-> "idle", valid |-> NoStamp, oldest |-> NoStamp, searched |-> {},
     lost |-> FALSE, copied |-> FALSE,
     was |-> [image |-> NoImage, annotationsByTopic |-> EmptyMap]]

\* the store as createStore builds it from initialState
InitialStore(imageTopic, annotationTopics, synchronize) ==
    [imageTopic |-> imageTopic, annotationTopics |-> annotationTopics,
     image |-> NoImage, annotationsByTopic |-> EmptyMap, tree |-> EmptyTree,
     synchronize |-> synchronize]

\* no Image panel in use
ImageIdle ==
    /\ store = InitialStore("img", <<>>, FALSE)
    /\ shared = NoStamp
    /\ act = NoAction

\* the panel types the tiles of the layout are of
PanelTypes == {"RosOut", "Plot"}

\* undefined, where a panel component is expected
NoComponent == [kind |-> "none", module |-> 0, from |-> 0]

\* new Map(), of panel components by panel type
EmptyCache == [x \in {} |-> NoComponent]

\* no render of the layout made yet. Of a render: pc, where it is;
\* panelCatalog, the catalog the render read and renderTile closes over; todo,
\* the tiles the mosaic has still to ask for; out, the component renderTile
\* has put in each tile
NoRender ==
    [pc |-> "idle", panelCatalog |-> [id |-> 0, panels |-> [type \in PanelTypes |-> 0]],
     todo |-> {}, out |-> [x \in {} |-> NoComponent]]

\* the effect before the component is mounted
NoEffect == [deps |-> 0, pending |-> FALSE]

\* no panel layout mounted
LayoutIdle ==
    /\ panelCatalog = [id |-> 1, panels |-> [type \in PanelTypes |-> 1]]
    /\ panelComponentCache = EmptyCache
    /\ render = NoRender
    /\ effect = NoEffect

Init ==
    /\ src \in McapSource
    /\ calls = [c \in CallIds |-> NoCall]
    /\ impls = <<>>
    /\ sourceImpl = 0
    /\ logged = 0
    /\ lastOp = NoOp
    /\ ReaderIdle
    /\ ImageIdle
    /\ LayoutIdle

\* ---- helpers ------------------------------------------------------------
InFlight(c) == calls[c].pc \notin {"idle", "resolved", "rejected"}

Settled(c) == calls[c].pc \in {"resolved", "rejected"}

\* Line 32 with && in place of ||: a reader without channels, or one without
\* chunk indexes, would be kept.
UsableReader_And(s) == ~(s.nChunks = 0 /\ s.nChannels = 0)

\* tryCreateIndexedReader, line 32: the reader is kept only when it has chunk
\* indexes and channels
UsableReader(s) == ~(s.nChunks = 0 \/ s.nChannels = 0)

\* Lines 29-39 without the try/catch: the failure of
\* McapIndexedReader.Initialize leaves tryCreateIndexedReader as a rejection.
TryCreateIndexedReader_NoCatch(s) ==
    IF ~s.indexOk
    THEN [reader |-> "none", logs |-> 0, throws |-> TRUE]
    ELSE IF UsableReader(s)
         THEN [reader |-> "reader", logs |-> 0, throws |-> FALSE]
         ELSE [reader |-> "none", logs |-> 0, throws |-> FALSE]

\* tryCreateIndexedReader, lines 29-39: what the function does once
\* McapIndexedReader.Initialize has settled. A failure is caught, logged and
\* turned into `undefined`.
TryCreateIndexedReader(s) ==
    IF ~s.indexOk
    THEN [reader |-> "none", logs |-> 1, throws |-> FALSE]
    ELSE IF UsableReader(s)
         THEN [reader |-> "reader", logs |-> 0, throws |-> FALSE]
         ELSE [reader |-> "none", logs |-> 0, throws |-> FALSE]

\* Lines 80-86 without the test of the header: parseInt(null) would be handed
\* to the streaming source as its size.
ResponseError_NoLengthTest(s) == IF ~s.hasBody THEN ErrNoBody ELSE ""

\* lines 80-86: the checks on the fetch response; "" when it can be streamed
ResponseError(s) ==
    IF ~s.hasBody THEN ErrNoBody
    ELSE IF ~s.hasLength THEN ErrNoLength
    ELSE ""

\* The guard answering quietly instead of throwing
Dispatch_Silent(impl) == IF impl = 0 THEN "empty" ELSE "forwarded"

\* lines 103-105 and 113-115: the guard of both pass-through methods
Dispatch(impl) == IF impl = 0 THEN ErrUninitialized ELSE "forwarded"

Reject(c, e) == [calls EXCEPT ![c].pc = "rejected", ![c].error = e]

\* `this._sourceImpl = new ...(...)` followed by line 97,
\* `this._sourceImpl.initialize()`, which runs in the same turn
Delegate(c, kind, usesStream) ==
    /\ impls' = Append(impls, [kind |-> kind, by |-> c, init |-> "pending"])
    /\ sourceImpl' = Len(impls) + 1
    /\ calls' = [calls EXCEPT ![c].pc = "awaitImplInit",
                              ![c].impl = Len(impls) + 1,
                              ![c].streamed = usesStream]

\* ---- initialize() -------------------------------------------------------
\* lines 50-58 (file) and 72-74 (url): the call runs up to its first await
CallInitialize(c) ==
    /\ calls[c].pc = "idle"
    /\ \A d \in CallIds : d < c => calls[d].pc # "idle"
    /\ calls' = [calls EXCEPT ![c].pc =
                    IF src.type = "file" THEN "awaitSlice" ELSE "awaitOpen"]
    /\ UNCHANGED <<src, impls, sourceImpl, logged, lastOp, restVars>>

\* Line 58 without its `await`: the outcome of the read is not looked at.
SliceSettles_NotAwaited(c) ==
    /\ calls[c].pc = "awaitSlice"
    /\ calls' = [calls EXCEPT ![c].pc = "awaitHandlers", ![c].tried = TRUE]
    /\ UNCHANGED <<src, impls, sourceImpl, logged, lastOp, restVars>>

\* lines 58-61 and 27-28: the first byte was read (or not); on success the
\* FileReadable is built and tryCreateIndexedReader runs up to its first await
SliceSettles(c) ==
    /\ calls[c].pc = "awaitSlice"
    /\ calls' = IF src.readOk
                THEN [calls EXCEPT ![c].pc = "awaitHandlers", ![c].tried = TRUE]
                ELSE Reject(c, ErrNotReadable)
    /\ UNCHANGED <<src, impls, sourceImpl, logged, lastOp, restVars>>

\* Line 74 without its `await`: the outcome of open() is not looked at.
OpenSettles_NotAwaited(c) ==
    /\ calls[c].pc = "awaitOpen"
    /\ calls' = [calls EXCEPT ![c].pc = "awaitHandlers", ![c].tried = TRUE]
    /\ UNCHANGED <<src, impls, sourceImpl, logged, lastOp, restVars>>

\* lines 74-75 and 27-28: readable.open() settled
OpenSettles(c) ==
    /\ calls[c].pc = "awaitOpen"
    /\ calls' = IF src.openOk
                THEN [calls EXCEPT ![c].pc = "awaitHandlers", ![c].tried = TRUE]
                ELSE Reject(c, ErrOpen)
    /\ UNCHANGED <<src, impls, sourceImpl, logged, lastOp, restVars>>

\* Line 28 moved inside the try block of lines 29-39: a failure to load the
\* handlers is caught and logged like a failure to read the index, and
\* tryCreateIndexedReader returns undefined.
HandlersSettle_Caught(c) ==
    /\ calls[c].pc = "awaitHandlers"
    /\ calls' = IF src.handlersOk
                THEN [calls EXCEPT ![c].pc = "awaitIndexed"]
                ELSE [calls EXCEPT ![c].pc = "awaitReader", ![c].reader = "none"]
    /\ logged' = IF src.handlersOk THEN logged ELSE logged + 1
    /\ UNCHANGED <<src, impls, sourceImpl, lastOp, restVars>>

\* lines 28-30: loadDecompressHandlers() settled; it is awaited outside the
\* try block, so its failure rejects tryCreateIndexedReader and initialize()
HandlersSettle(c) ==
    /\ calls[c].pc = "awaitHandlers"
    /\ calls' = IF src.handlersOk
                THEN [calls EXCEPT ![c].pc = "awaitIndexed"]
                ELSE Reject(c, ErrHandlers)
    /\ UNCHANGED <<src, impls, sourceImpl, logged, lastOp, restVars>>

\* lines 30-39: McapIndexedReader.Initialize settled and
\* tryCreateIndexedReader returns
IndexedReaderSettles(c) ==
    /\ calls[c].pc = "awaitIndexed"
    /\ LET r == TryCreateIndexedReader(src) IN
        /\ logged' = logged + r.logs
        /\ calls' = IF r.throws
                    THEN Reject(c, ErrIndex)
                    ELSE [calls EXCEPT ![c].pc = "awaitReader", ![c].reader = r.reader]
    /\ UNCHANGED <<src, impls, sourceImpl, lastOp, restVars>>

\* Lines 61-69 and 75-79 taking the streaming branch whatever the probe gave
ReaderReturned_StreamingAlways(c) ==
    /\ calls[c].pc = "awaitReader"
    /\ IF src.type = "file"
       THEN Delegate(c, "streaming", TRUE)
       ELSE /\ calls' = [calls EXCEPT ![c].pc = "awaitFetch", ![c].fetched = TRUE]
            /\ UNCHANGED <<impls, sourceImpl>>
    /\ UNCHANGED <<src, logged, lastOp, restVars>>

\* Lines 61-69 with the `else` lost: the streaming source is built after the
\* indexed one and replaces it.
ReaderReturned_BothBranches(c) ==
    /\ calls[c].pc = "awaitReader"
    /\ impls' = impls \o <<[kind |-> "indexed", by |-> c, init |-> "pending"],
                           [kind |-> "streaming", by |-> c, init |-> "pending"]>>
    /\ sourceImpl' = Len(impls) + 2
    /\ calls' = [calls EXCEPT ![c].pc = "awaitImplInit", ![c].impl = Len(impls) + 2,
                              ![c].streamed = TRUE]
    /\ UNCHANGED <<src, logged, lastOp, restVars>>

\* lines 61-70 (file), 75-79 (url) and 97: initialize() resumes with the
\* reader or undefined
ReaderReturned(c) ==
    /\ calls[c].pc = "awaitReader"
    /\ IF calls[c].reader = "reader"
       THEN Delegate(c, "indexed", FALSE)
       ELSE IF src.type = "file"
            THEN Delegate(c, "streaming", TRUE)
            ELSE /\ calls' = [calls EXCEPT ![c].pc = "awaitFetch", ![c].fetched = TRUE]
                 /\ UNCHANGED <<impls, sourceImpl>>
    /\ UNCHANGED <<src, logged, lastOp, restVars>>

\* Lines 79-91 with the streaming source built and assigned before the
\* response is examined
FetchSettles_AssignFirst(c) ==
    /\ calls[c].pc = "awaitFetch"
    /\ IF ~src.fetchOk
       THEN /\ calls' = Reject(c, ErrFetch)
            /\ UNCHANGED <<impls, sourceImpl>>
       ELSE /\ impls' = Append(impls, [kind |-> "streaming", by |-> c, init |-> "pending"])
            /\ sourceImpl' = Len(impls) + 1
            /\ calls' = IF ResponseError(src) # ""
                        THEN [calls EXCEPT ![c].pc = "rejected",
                                           ![c].error = ResponseError(src),
                                           ![c].impl = Len(impls) + 1,
                                           ![c].streamed = TRUE]
                        ELSE [calls EXCEPT ![c].pc = "awaitImplInit",
                                           ![c].impl = Len(impls) + 1,
                                           ![c].streamed = TRUE]
    /\ UNCHANGED <<src, logged, lastOp, restVars>>

\* lines 79-91 and 97: fetch(source.url) settled
FetchSettles(c) ==
    /\ calls[c].pc = "awaitFetch"
    /\ IF ~src.fetchOk
       THEN /\ calls' = Reject(c, ErrFetch)
            /\ UNCHANGED <<impls, sourceImpl>>
       ELSE IF ResponseError(src) # ""
            THEN /\ calls' = Reject(c, ResponseError(src))
                 /\ UNCHANGED <<impls, sourceImpl>>
            ELSE Delegate(c, "streaming", TRUE)
    /\ UNCHANGED <<src, logged, lastOp, restVars>>

\* the promise of the delegate's initialize() settles
ImplInitializeSettles(i) ==
    /\ i \in 1..Len(impls)
    /\ impls[i].init = "pending"
    /\ impls' = [impls EXCEPT ![i].init = IF src.implInitOk THEN "ok" ELSE "failed"]
    /\ UNCHANGED <<src, calls, sourceImpl, logged, lastOp, restVars>>

\* Line 97 answering without waiting for the delegate's initialize()
InitializeReturns_NoAwait(c) ==
    /\ calls[c].pc = "awaitImplInit"
    /\ calls' = [calls EXCEPT ![c].pc = "resolved", ![c].result = calls[c].impl]
    /\ UNCHANGED <<src, impls, sourceImpl, logged, lastOp, restVars>>

\* Line 97 followed by a cleanup: a delegate whose initialize() rejected is
\* taken out of _sourceImpl again.
InitializeReturns_Unsets(c) ==
    /\ calls[c].pc = "awaitImplInit"
    /\ impls[calls[c].impl].init # "pending"
    /\ calls' = IF impls[calls[c].impl].init = "ok"
                THEN [calls EXCEPT ![c].pc = "resolved", ![c].result = calls[c].impl]
                ELSE Reject(c, ErrImplInit)
    /\ sourceImpl' = IF impls[calls[c].impl].init = "ok" THEN sourceImpl ELSE 0
    /\ UNCHANGED <<src, impls, logged, lastOp, restVars>>

\* line 97: `return await ...initialize()` resumes: the facade's promise
\* settles like the delegate's, with the delegate's Initalization
InitializeReturns(c) ==
    /\ calls[c].pc = "awaitImplInit"
    /\ impls[calls[c].impl].init # "pending"
    /\ calls' = IF impls[calls[c].impl].init = "ok"
                THEN [calls EXCEPT ![c].pc = "resolved", ![c].result = calls[c].impl]
                ELSE Reject(c, ErrImplInit)
    /\ UNCHANGED <<src, impls, sourceImpl, logged, lastOp, restVars>>

\* ---- the pass-through methods ------------------------------------------
\* lines 100-108: messageIterator throws synchronously or hands opt on
MessageIterator(opt) ==
    /\ LET d == Dispatch(sourceImpl) IN
       lastOp' = [tick |-> 1 - lastOp.tick, op |-> "messageIterator", arg |-> opt,
                  how |-> IF d = "forwarded" THEN "return" ELSE "throw",
                  outcome |-> d,
                  to |-> IF d = "forwarded" THEN sourceImpl ELSE 0,
                  passed |-> IF d = "forwarded" THEN opt ELSE 0]
    /\ UNCHANGED <<src, calls, impls, sourceImpl, logged, restVars>>

\* Lines 110-118 calling the delegate without the caller's args
GetBackfillMessages_DropsArgs(args) ==
    /\ LET d == Dispatch(sourceImpl) IN
       lastOp' = [tick |-> 1 - lastOp.tick, op |-> "getBackfillMessages", arg |-> args,
                  how |-> IF d = "forwarded" THEN "resolve" ELSE "reject",
                  outcome |-> d,
                  to |-> IF d = "forwarded" THEN sourceImpl ELSE 0,
                  passed |-> 0]
    /\ UNCHANGED <<src, calls, impls, sourceImpl, logged, restVars>>

\* lines 110-118: getBackfillMessages is async: it rejects or hands args on
GetBackfillMessages(args) ==
    /\ LET d == Dispatch(sourceImpl) IN
       lastOp' = [tick |-> 1 - lastOp.tick, op |-> "getBackfillMessages", arg |-> args,
                  how |-> IF d = "forwarded" THEN "resolve" ELSE "reject",
                  outcome |-> d,
                  to |-> IF d = "forwarded" THEN sourceImpl ELSE 0,
                  passed |-> IF d = "forwarded" THEN args ELSE 0]
    /\ UNCHANGED <<src, calls, impls, sourceImpl, logged, restVars>>

Next ==
    \/ \E c \in CallIds : CallInitialize(c)
    \/ \E c \in CallIds : SliceSettles(c)
    \/ \E c \in CallIds : OpenSettles(c)
    \/ \E c \in CallIds : HandlersSettle(c)
    \/ \E c \in CallIds : IndexedReaderSettles(c)
    \/ \E c \in CallIds : ReaderReturned(c)
    \/ \E c \in CallIds : FetchSettles(c)
    \/ \E i \in 1..Len(impls) : ImplInitializeSettles(i)
    \/ \E c \in CallIds : InitializeReturns(c)
    \/ \E opt \in 1..MaxArg : MessageIterator(opt)
    \/ \E args \in 1..MaxArg : GetBackfillMessages(args)

Spec == Init /\ [][Next]_vars


\* ======================================================================
\* The indexed delegate: iteration and backfill over an indexed file
\* (McapIndexedIterableSource on an McapIndexedReader), spec sections 4.2,
\* 4.5 and 6.
\* ======================================================================
Times == 0..MaxTime

Channels == 1..MaxChan

\* the channel table: channel 1 is topic 1, and from there on two channels
\* share a topic (channels 2 and 3 are topic 2, ...)
TopicOf(ch) == (ch \div 2) + 1

Topics == {TopicOf(ch) : ch \in Channels}

\* A file: its message records in file order (the i-th record is record i),
\* the chunk each one sits in, and for each chunk whether its compression id
\* has a registered decompress handler.
RecIds(f) == 1..Len(f.recs)

ChunkCount(f) == IF f.chunkOf = <<>> THEN 0 ELSE f.chunkOf[Len(f.chunkOf)]

ChunkRecs(f, k) == {i \in RecIds(f) : f.chunkOf[i] = k}

\* the chunk index' time range of chunk k
ChunkStart(f, k) ==
    CHOOSE x \in Times : /\ \E i \in ChunkRecs(f, k) : f.recs[i].time = x
                         /\ \A i \in ChunkRecs(f, k) : f.recs[i].time >= x

ChunkEnd(f, k) ==
    CHOOSE x \in Times : /\ \E i \in ChunkRecs(f, k) : f.recs[i].time = x
                         /\ \A i \in ChunkRecs(f, k) : f.recs[i].time <= x

\* A valid indexed file: chunks are numbered in file order and are not empty,
\* the chunk index is ordered by start time and the chunks' time ranges do
\* not overlap. Inside a chunk the records are in any order.
ValidFile(f) ==
    /\ Len(f.chunkOf) = Len(f.recs)
    /\ f.recs # <<>> => f.chunkOf[1] = 1
    /\ \A i \in RecIds(f) : i > 1 => f.chunkOf[i] - f.chunkOf[i - 1] \in {0, 1}
    /\ \A i, j \in RecIds(f) : f.chunkOf[i] < f.chunkOf[j] => f.recs[i].time <= f.recs[j].time
    /\ \A k \in 1..MaxFileChunks : k > ChunkCount(f) => f.known[k]

\* the files explored: the valid ones in which at most one chunk has an
\* unregistered compression
IndexedFiles ==
    UNION { { f \in [recs : [1..n -> [time : Times, chan : Channels]],
                     chunkOf : [1..n -> 1..MaxFileChunks],
                     known : [1..MaxFileChunks -> BOOLEAN]] :
                /\ ValidFile(f)
                /\ \A j, k \in 1..MaxFileChunks : (~f.known[j] /\ ~f.known[k]) => j = k }
            : n \in 0..MaxRecs }

\* MessageIteratorArgs: an optional topic filter and inclusive time bounds. A
\* start left out is the beginning of time (0), an end left out the end of
\* time (MaxTime).
IteratorArgs ==
    { a \in [filter : BOOLEAN, topics : SUBSET Topics, start : Times, end : Times] :
        ~a.filter => a.topics = {} }

\* Wanted with the end bound taken as exclusive
Wanted_ExclusiveEnd(f, i, a) ==
    /\ a.start <= f.recs[i].time /\ f.recs[i].time < a.end
    /\ a.filter => TopicOf(f.recs[i].chan) \in a.topics

\* the record is inside the bounds and on a requested topic
Wanted(f, i, a) ==
    /\ a.start <= f.recs[i].time /\ f.recs[i].time <= a.end
    /\ a.filter => TopicOf(f.recs[i].chan) \in a.topics

\* the chunk's time range meets the bounds
Intersects(f, k, a) == ChunkStart(f, k) <= a.end /\ ChunkEnd(f, k) >= a.start

\* the first chunk from `from` on that the iteration has to read; 0: none
NextChunk(f, a, from) ==
    IF \E k \in from..ChunkCount(f) : Intersects(f, k, a)
    THEN CHOOSE k \in from..ChunkCount(f) :
            /\ Intersects(f, k, a)
            /\ \A j \in from..(k - 1) : ~Intersects(f, j, a)
    ELSE 0

\* record i comes before record j: by log time, then by place in the file
Before(f, i, j) ==
    \/ f.recs[i].time < f.recs[j].time
    \/ (f.recs[i].time = f.recs[j].time /\ i <= j)

RECURSIVE InTimeOrder(_, _)
\* the records of S as a sequence in time order
InTimeOrder(f, S) ==
    IF S = {} THEN <<>>
    ELSE LET i == CHOOSE x \in S : \A y \in S : Before(f, x, y)
         IN <<i>> \o InTimeOrder(f, S \ {i})

RECURSIVE InFileOrder(_)
\* the records of S as a sequence in the order they are stored
InFileOrder(S) ==
    IF S = {} THEN <<>>
    ELSE LET i == CHOOSE x \in S : \A y \in S : x <= y
         IN <<i>> \o InFileOrder(S \ {i})

\* ChunkYield without the sort: the chunk's wanted records as stored
ChunkYield_AsStored(f, k, a) == InFileOrder({i \in ChunkRecs(f, k) : Wanted(f, i, a)})

\* what reading chunk k gives the iteration: its wanted records, in time order
ChunkYield(f, k, a) == InTimeOrder(f, {i \in ChunkRecs(f, k) : Wanted(f, i, a)})

\* ---- messageIterator on the indexed delegate ---------------------------
\* a new iteration: the first call on the reader, or the call for another
\* time range after an iteration that failed; nothing is read before the
\* consumer pulls
OpenIterator(a) ==
    /\ \/ rd = NoRead
       \/ /\ rd.op = "messageIterator" /\ rd.status = "error" /\ ~rd.afterError
          /\ a.filter = rd.args.filter /\ a.topics = rd.args.topics
    /\ rd' = [NoRead EXCEPT !.op = "messageIterator", !.args = a, !.next = 1,
                            !.status = "open", !.afterError = (rd.status = "error")]
    /\ UNCHANGED <<file, facadeVars, imageVars, layoutVars>>

\* ReadChunk decompressing every chunk of the range before it yields anything
ReadChunk_Eager ==
    /\ rd.op = "messageIterator" /\ rd.status = "open"
    /\ LET k == NextChunk(file, rd.args, rd.next)
           bad == {j \in rd.next..ChunkCount(file) :
                      Intersects(file, j, rd.args) /\ ~file.known[j]}
       IN
         rd' = IF k = 0 THEN [rd EXCEPT !.status = "done"]
               ELSE IF bad # {}
                    THEN [rd EXCEPT !.status = "error",
                                    !.failedAt = CHOOSE j \in bad : \A i \in bad : j <= i]
                    ELSE [rd EXCEPT !.next = k + 1,
                                    !.out = rd.out \o ChunkYield(file, k, rd.args)]
    /\ UNCHANGED <<file, facadeVars, imageVars, layoutVars>>

\* the consumer pulls: the next chunk in the bounds is read, decompressed and
\* its records are yielded; an unregistered compression fails the iteration
ReadChunk ==
    /\ rd.op = "messageIterator" /\ rd.status = "open"
    /\ LET k == NextChunk(file, rd.args, rd.next) IN
         rd' = IF k = 0 THEN [rd EXCEPT !.status = "done"]
               ELSE IF ~file.known[k]
                    THEN [rd EXCEPT !.status = "error", !.failedAt = k]
                    ELSE [rd EXCEPT !.next = k + 1,
                                    !.out = rd.out \o ChunkYield(file, k, rd.args)]
    /\ UNCHANGED <<file, facadeVars, imageVars, layoutVars>>

\* ---- getBackfillMessages on the indexed delegate ------------------------
\* the records of the topic at or before time T in chunk k
Qualifying(f, k, topic, T) ==
    {i \in ChunkRecs(f, k) : TopicOf(f.recs[i].chan) = topic /\ f.recs[i].time <= T}

\* Searched looking into the candidate chunk only
Searched_CandidateOnly(f, topic, T) ==
    {k \in 1..ChunkCount(f) :
        /\ ChunkStart(f, k) <= T
        /\ \A j \in (k + 1)..ChunkCount(f) : ChunkStart(f, j) > T}

\* the chunks the backward search for the topic opens: from the last chunk
\* that starts at or before T back to the first one that holds a qualifying
\* record
Searched(f, topic, T) ==
    {k \in 1..ChunkCount(f) :
        /\ ChunkStart(f, k) <= T
        /\ \A j \in (k + 1)..ChunkCount(f) :
              ChunkStart(f, j) <= T => Qualifying(f, j, topic, T) = {}}

\* the set of the latest record of the topic at or before T; empty when there
\* is none
LatestAtOrBefore(f, topic, T) ==
    LET Q == UNION {Qualifying(f, k, topic, T) : k \in Searched(f, topic, T)}
    IN {i \in Q : \A j \in Q : Before(f, j, i)}

BackfillResult(f, topics, T) ==
    InTimeOrder(f, UNION {LatestAtOrBefore(f, topic, T) : topic \in topics})

\* the call comes right after an iteration over everything up to T that was
\* consumed to its end
FullyConsumedTo(r, T) ==
    /\ r.op = "messageIterator" /\ r.status = "done"
    /\ ~r.args.filter /\ r.args.start = 0 /\ r.args.end = T

\* a seek to T: the first call on the reader, or the call after an iteration
\* up to T that was consumed to its end
Backfill(topics, T) ==
    /\ rd = NoRead \/ FullyConsumedTo(rd, T)
    /\ LET bad == {k \in UNION {Searched(file, topic, T) : topic \in topics} :
                      ~file.known[k]}
       IN rd' = [NoRead EXCEPT
                   !.op = "getBackfillMessages",
                   !.args = [filter |-> TRUE, topics |-> topics, start |-> 0, end |-> T],
                   !.status = IF bad = {} THEN "done" ELSE "error",
                   !.out = IF bad = {} THEN BackfillResult(file, topics, T) ELSE <<>>,
                   !.after = [full |-> FullyConsumedTo(rd, T), out |-> rd.out]]
    /\ UNCHANGED <<file, facadeVars, imageVars, layoutVars>>

\* ---- the specification of the indexed delegate --------------------------
\* the facade is left as constructed; the file is any valid indexed file
ReaderInit ==
    /\ FacadeIdle
    /\ file \in IndexedFiles
    /\ rd = NoRead
    /\ ImageIdle
    /\ LayoutIdle

NextOpenIterator == \E a \in IteratorArgs : OpenIterator(a)

NextBackfill == \E topics \in SUBSET Topics, T \in Times : Backfill(topics, T)

ReaderNext ==
    \/ NextOpenIterator
    \/ ReadChunk
    \/ NextBackfill

SpecReader == ReaderInit /\ [][ReaderNext]_vars

\* ======================================================================
\* The Image panel's message store (panels/Image/index.tsx:
\* useImagePanelMessages, addMessages, synchronizedAddMessages).
\* ======================================================================
\* @foxglove/rostime
ToNanoSec(t) == t.sec * 1000000000 + t.nsec

FromNanoSec(n) == [sec |-> n \div 1000000000, nsec |-> n % 1000000000]

IsLessThan(a, b) == a.sec < b.sec \/ (a.sec = b.sec /\ a.nsec < b.nsec)

Stamps == {FromNanoSec(n * 500000000) : n \in 0..MaxStamp}

AnnotationTopicNames == {"a", "b"}

ImageTopicNames == {"img", "img2"}

\* the values given to setAnnotationTopics: none, one or both of the topics
\* (<<"b">> is <<"a">> with the names swapped)
TopicLists == {<<>>, <<"a">>, <<"a", "b">>}

\* A message event, by what it normalises to: an image with a header stamp,
\* the annotations of one annotation message, or neither.
MessageEvents ==
    {[kind |-> "image", topic |-> "img", stamp |-> s] : s \in Stamps}
      \cup {[kind |-> "annotations", topic |-> tp, stamp |-> s] :
               tp \in AnnotationTopicNames, s \in Stamps}
      \cup {[kind |-> "other", topic |-> "img", stamp |-> NoStamp]}

\* lines 135 and 226: undefined unless the event carries an image
NormalizeImageMessage(ev) == IF ev.kind = "image" THEN [stamp |-> ev.stamp] ELSE NoImage

\* lines 136 and 227: undefined (here <<>>) unless the event carries annotations
NormalizeAnnotations(ev) ==
    IF ev.kind = "annotations" THEN <<[stamp |-> ev.stamp, topic |-> ev.topic]>> ELSE <<>>

\* Map.set and AVLTree.set
Put(f, k, v) == [x \in DOMAIN f \cup {k} |-> IF x = k THEN v ELSE f[x]]

\* lines 143-151 and 169-176: the item at the stamp, a fresh one if there is none
ItemAt(tree, stamp) ==
    IF stamp \in DOMAIN tree THEN tree[stamp]
    ELSE [image |-> NoImage, annotationsByTopic |-> EmptyMap]

\* lines 141-152
StoreImage(tree, image) ==
    Put(tree, image.stamp, [ItemAt(tree, image.stamp) EXCEPT !.image = image])

RECURSIVE StoreGroups(_, _, _, _)
\* lines 154-179: the annotations are grouped by toNanoSec(stamp) and each
\* group becomes the topic's annotations of the item at fromNanoSec(key)
StoreGroups(tree, topic, annotations, keys) ==
    IF keys = {} THEN tree
    ELSE LET key == CHOOSE k \in keys : \A j \in keys : k <= j
             stamp == FromNanoSec(key)
             group == SelectSeq(annotations, LAMBDA a : ToNanoSec(a.stamp) = key)
             item == ItemAt(tree, stamp)
         IN StoreGroups(
               Put(tree, stamp,
                   [item EXCEPT !.annotationsByTopic = Put(@, topic, group)]),
               topic, annotations, keys \ {key})

\* lines 186-189: "we have a synchronized set"
Synchronized(item, annotationTopics) ==
    /\ item.image # NoImage
    /\ Cardinality(DOMAIN item.annotationsByTopic) = Len(annotationTopics)

\* the oldest synchronized entry, as the comment of line 181 has it
OldestSynchronized(tree, annotationTopics) ==
    LET S == {k \in DOMAIN tree : Synchronized(tree[k], annotationTopics)}
    IN IF S = {} THEN NoStamp ELSE CHOOSE k \in S : \A j \in S : ~IsLessThan(j, k)

\* lines 182-192: tree.entries() runs in ascending key order and every match
\* overwrites validEntry, so the loop ends with the last match
ValidEntry(tree, annotationTopics) ==
    LET S == {k \in DOMAIN tree : Synchronized(tree[k], annotationTopics)}
    IN IF S = {} THEN NoStamp ELSE CHOOSE k \in S : \A j \in S : ~IsLessThan(k, j)

\* the shift loop with isLessThan taken for "not greater"
Shifted_Inclusive(tree, valid) ==
    [k \in {j \in DOMAIN tree : IsLessThan(valid, j)} |-> tree[k]]

\* lines 196-201: shift() while the smallest key is less than the valid one
Shifted(tree, valid) ==
    [k \in {j \in DOMAIN tree : ~IsLessThan(j, valid)} |-> tree[k]]

\* One iteration of the loop of lines 134-210 on the next event of the frame.
\* The result: the store as set() will have it, the Map sharing, and what the
\* search found (valid is NoStamp when the loop goes on).
SynchronizedAddMessages(state, sh, messageEvent) ==
    LET image == NormalizeImageMessage(messageEvent)
        annotations == NormalizeAnnotations(messageEvent)
    IN
    IF image = NoImage /\ annotations = <<>>
    THEN [store |-> state, shared |-> sh, valid |-> NoStamp, oldest |-> NoStamp,
          searched |-> {}]
    ELSE
      LET t1 == IF image # NoImage THEN StoreImage(state.tree, image) ELSE state.tree
          t2 == IF annotations # <<>>
                THEN StoreGroups(t1, messageEvent.topic, annotations,
                                 {ToNanoSec(annotations[n].stamp) :
                                     n \in 1..Len(annotations)})
                ELSE t1
          validEntry == ValidEntry(t2, state.annotationTopics)
          \* line 177 writes into the item's Map, which is the store's Map
          \* when the item is the one published
          seen == IF sh \in DOMAIN t2 THEN t2[sh].annotationsByTopic
                  ELSE state.annotationsByTopic
      IN
      IF validEntry # NoStamp
      THEN [store |-> [state EXCEPT !.image = t2[validEntry].image,
                                    !.annotationsByTopic = t2[validEntry].annotationsByTopic,
                                    !.tree = Shifted(t2, validEntry)],
            shared |-> validEntry,
            valid |-> validEntry,
            oldest |-> OldestSynchronized(t2, state.annotationTopics),
            searched |-> DOMAIN t2]
      ELSE [store |-> [state EXCEPT !.tree = t2, !.annotationsByTopic = seen],
            shared |-> sh, valid |-> NoStamp, oldest |-> NoStamp, searched |-> {}]

\* Lines 233-244 without the copy of lines 233-236: the image and the
\* annotations are set on the state's own fields, so that a Map shared with a
\* tree item changes in the tree as well.
AddMessages_InPlace(state, sh, event) ==
    LET normalizedImage == NormalizeImageMessage(event)
        normalizedAnnotations == NormalizeAnnotations(event)
    IN
    IF normalizedImage = NoImage /\ normalizedAnnotations = <<>>
    THEN [store |-> state, shared |-> sh]
    ELSE
      LET s1 == IF normalizedImage # NoImage
                THEN [state EXCEPT !.image = normalizedImage] ELSE state
          s2 == IF normalizedAnnotations # <<>>
                THEN [s1 EXCEPT !.annotationsByTopic =
                                   Put(@, event.topic, normalizedAnnotations)]
                ELSE s1
          s3 == IF sh \in DOMAIN state.tree
                THEN [s2 EXCEPT !.tree[sh].annotationsByTopic = s2.annotationsByTopic]
                ELSE s2
      IN [store |-> s3, shared |-> sh]

\* One iteration of the loop of lines 225-245: newState is a copy of image
\* and annotationsByTopic made at the first event that matters.
AddMessages(state, sh, event) ==
    LET normalizedImage == NormalizeImageMessage(event)
        normalizedAnnotations == NormalizeAnnotations(event)
    IN
    IF normalizedImage = NoImage /\ normalizedAnnotations = <<>>
    THEN [store |-> state, shared |-> sh]
    ELSE
      LET s1 == IF normalizedImage # NoImage
                THEN [state EXCEPT !.image = normalizedImage] ELSE state
          s2 == IF normalizedAnnotations # <<>>
                THEN [s1 EXCEPT !.annotationsByTopic =
                                   Put(@, event.topic, normalizedAnnotations)]
                ELSE s1
      IN [store |-> s2, shared |-> NoStamp]

\* ---- the store's actions (lines 263-296) --------------------------------
\* A store action runs to its end before the next one starts. frame() loops
\* over the events of currentFrame; the events are drawn as the loop reaches
\* them, so a frame is any finite sequence of events.

\* lines 293-294 and 220: frame(currentFrame) enters addMessages, which takes
\* the synchronized path or the plain one
Frame ==
    /\ act.pc = "idle"
    /\ act' = [NoAction EXCEPT
                 !.pc = IF store.synchronize /\ Len(store.annotationTopics) > 0
                        THEN "sync" ELSE "plain",
                 !.was = IF store.synchronize /\ Len(store.annotationTopics) > 0
                         THEN Published(store) ELSE NoAction.was]
    /\ UNCHANGED <<store, shared, facadeVars, readerVars, layoutVars>>

\* lines 134-210: the loop of synchronizedAddMessages takes the next event
NextSynchronized(messageEvent) ==
    /\ act.pc = "sync"
    /\ LET r == SynchronizedAddMessages(store, shared, messageEvent) IN
         /\ store' = r.store
         /\ shared' = r.shared
         /\ act' = IF r.valid = NoStamp THEN act
                   ELSE [act EXCEPT !.pc = "returned", !.valid = r.valid,
                                    !.oldest = r.oldest, !.searched = r.searched,
                                    !.was = NoAction.was]
    /\ UNCHANGED <<facadeVars, readerVars, layoutVars>>

\* lines 203-208: the return leaves the loop; the events of currentFrame that
\* come after are not looked at
NextNotReached(messageEvent) ==
    /\ act.pc = "returned"
    /\ act' = [act EXCEPT !.lost = @ \/ (/\ messageEvent.kind # "other"
                                          /\ ~IsLessThan(messageEvent.stamp, act.valid))]
    /\ UNCHANGED <<store, shared, facadeVars, readerVars, layoutVars>>

\* lines 225-245: the loop of addMessages takes the next event
NextPlain(event) ==
    /\ act.pc = "plain"
    /\ LET r == AddMessages(store, shared, event) IN
         /\ store' = r.store
         /\ shared' = r.shared
    /\ act' = [act EXCEPT !.copied = @ \/ event.kind # "other"]
    /\ UNCHANGED <<facadeVars, readerVars, layoutVars>>

\* lines 212-213, 203-208 and 247: addMessages returns and set() merges
FrameReturns ==
    /\ act.pc # "idle"
    /\ act' = NoAction
    /\ UNCHANGED <<store, shared, facadeVars, readerVars, layoutVars>>

\* lines 264-274: a new Map and a new tree; image and imageTopic are not in
\* the partial state, so they stay
SetImageTopic(imageTopic) ==
    /\ act.pc = "idle"
    /\ IF store.imageTopic # imageTopic
       THEN /\ store' = [store EXCEPT !.annotationsByTopic = EmptyMap, !.tree = EmptyTree]
            /\ shared' = NoStamp
       ELSE UNCHANGED <<store, shared>>
    /\ act' = NoAction
    /\ UNCHANGED <<facadeVars, readerVars, layoutVars>>

\* lines 275-280
SetAnnotationTopics(annotationTopics) ==
    /\ act.pc = "idle"
    /\ store' = [store EXCEPT !.annotationTopics = annotationTopics]
    /\ act' = NoAction
    /\ UNCHANGED <<shared, facadeVars, readerVars, layoutVars>>

\* lines 281-286
SetSynchronize(synchronize) ==
    /\ act.pc = "idle"
    /\ store' = [store EXCEPT !.synchronize = synchronize]
    /\ act' = NoAction
    /\ UNCHANGED <<shared, facadeVars, readerVars, layoutVars>>

\* lines 287-292
Clear ==
    /\ act.pc = "idle"
    /\ store' = [store EXCEPT !.annotationsByTopic = EmptyMap, !.tree = EmptyTree]
    /\ shared' = NoStamp
    /\ act' = NoAction
    /\ UNCHANGED <<facadeVars, readerVars, layoutVars>>

\* lines 250-262: the store of one panel; the facade and the reader are not
\* in use
ImageInit ==
    /\ FacadeIdle
    /\ ReaderIdle
    /\ \E annotationTopics \in TopicLists, synchronize \in BOOLEAN :
          store = InitialStore("img", annotationTopics, synchronize)
    /\ shared = NoStamp
    /\ act = NoAction
    /\ LayoutIdle

FrameEvent ==
    \E messageEvent \in MessageEvents :
        \/ NextSynchronized(messageEvent)
        \/ NextNotReached(messageEvent)
        \/ NextPlain(messageEvent)

NextSetImageTopic == \E imageTopic \in ImageTopicNames : SetImageTopic(imageTopic)

NextSetAnnotationTopics ==
    \E annotationTopics \in TopicLists : SetAnnotationTopics(annotationTopics)

NextSetSynchronize == \E synchronize \in BOOLEAN : SetSynchronize(synchronize)

ImageNext ==
    \/ Frame
    \/ FrameEvent
    \/ FrameReturns
    \/ NextSetImageTopic
    \/ NextSetAnnotationTopics
    \/ NextSetSynchronize
    \/ Clear

SpecImage == ImageInit /\ [][ImageNext]_vars

\* ======================================================================
\* The panel layout (UnconnectedPanelLayout): the cache of panel
\* components by panel type, the renders that fill it and the effect that
\* clears it.
\* ======================================================================
\* A panel catalog: an object (id tells one catalog from the next) that
\* names, for a panel type, the module of the panel, or nothing (0)
PanelCatalogs == [id : 1..MaxCatalog, panels : [PanelTypes -> 0..MaxModule]]

\* panelCatalog.getPanelByType(type): the PanelInfo (here its module), or
\* undefined (0)
GetPanelByType(catalog, type) == catalog.panels[type]

\* what the mosaic asks renderTile for: the ids of the panels of the layout,
\* <<type, rest>> for the string `type!rest`
PanelIds == {<<"RosOut", "a">>, <<"RosOut", "b">>, <<"Plot", "a">>}

\* the empty object renderTile is handed when the layout is empty
NoId == <<>>

\* the layouts the mosaic is given: some panels, or none
Layouts == {{NoId}} \cup (SUBSET PanelIds \ {{}})

\* getPanelTypeFromId: the part of the id before the `!`
GetPanelTypeFromId(id) == id[1]

\* line 320: React.lazy(panelInfo.module), a new component made in a render
\* that read the catalog
Lazy(module, catalog) == [kind |-> "lazy", module |-> module, from |-> catalog.id]

\* lines 321-326: the component that says "Unknown panel type"
UnknownPanel(catalog) == [kind |-> "unknown", module |-> 0, from |-> catalog.id]

\* Map.get, undefined (NoComponent) when the key is not there
Get(map, k) == IF k \in DOMAIN map THEN map[k] ELSE NoComponent

\* lines 311-331: the component renderTile puts in the tile, and the cache
\* it leaves
RenderTileResult(cache, catalog, id) ==
    LET type == GetPanelTypeFromId(id)
        cached == Get(cache, type)
        panelInfo == GetPanelByType(catalog, type)
        Panel == IF cached # NoComponent THEN cached
                 ELSE IF panelInfo # 0 THEN Lazy(panelInfo, catalog)
                 ELSE UnknownPanel(catalog)
    IN [Panel |-> Panel,
        cache |-> IF cached = NoComponent /\ panelInfo # 0
                  THEN [x \in DOMAIN cache \cup {type} |->
                           IF x = type THEN Panel ELSE cache[x]]
                  ELSE cache]

\* ---- the steps of the component ------------------------------------------
\* the provider of the panel catalog context hands out a new catalog
SetPanelCatalog(panels) ==
    /\ render.pc = "idle"
    /\ panelCatalog.id < MaxCatalog
    /\ panelCatalog' = [id |-> panelCatalog.id + 1, panels |-> panels]
    /\ UNCHANGED <<panelComponentCache, render, effect, facadeVars, readerVars, imageVars>>

\* lines 277-381: the component function runs: it reads the catalog (line
\* 294) and renderTile closes over it (lines 305, 361). React runs the
\* effects that are scheduled before it renders again.
Render(layout) ==
    /\ render.pc = "idle"
    /\ ~effect.pending
    /\ render' = [pc |-> "tiles", panelCatalog |-> panelCatalog, todo |-> layout,
                  out |-> NoRender.out]
    /\ UNCHANGED <<panelCatalog, panelComponentCache, effect,
                   facadeVars, readerVars, imageVars>>

\* lines 306-331: in the same render the mosaic calls renderTile for a tile
RenderTile(id) ==
    /\ render.pc = "tiles"
    /\ id \in render.todo
    /\ IF id = NoId
       THEN /\ render' = [render EXCEPT !.todo = @ \ {id}]
            /\ UNCHANGED panelComponentCache
       ELSE LET r == RenderTileResult(panelComponentCache, render.panelCatalog, id) IN
            /\ render' = [render EXCEPT
                            !.todo = @ \ {id},
                            !.out = [x \in DOMAIN @ \cup {id} |->
                                        IF x = id THEN r.Panel ELSE @[x]]]
            /\ panelComponentCache' = r.cache
    /\ UNCHANGED <<panelCatalog, effect, facadeVars, readerVars, imageVars>>

\* the render is committed; the effect of lines 301-303 is scheduled when
\* its dependency, the catalog, is not the one of the render before (on
\* mount it always is)
Commit ==
    /\ render.pc = "tiles"
    /\ render.todo = {}
    /\ render' = [render EXCEPT !.pc = "idle"]
    /\ effect' = [deps |-> render.panelCatalog.id,
                  pending |-> effect.deps # render.panelCatalog.id]
    /\ UNCHANGED <<panelCatalog, panelComponentCache, facadeVars, readerVars, imageVars>>

\* lines 301-303: the effect runs, after the render it belongs to
ClearCache ==
    /\ render.pc = "idle"
    /\ effect.pending
    /\ panelComponentCache' = EmptyCache
    /\ effect' = [effect EXCEPT !.pending = FALSE]
    /\ UNCHANGED <<panelCatalog, render, facadeVars, readerVars, imageVars>>

\* the layout before its first render, under any first catalog; the other
\* parts are not in use
LayoutInit ==
    /\ FacadeIdle
    /\ ReaderIdle
    /\ ImageIdle
    /\ panelCatalog \in {c \in PanelCatalogs : c.id = 1}
    /\ panelComponentCache = EmptyCache
    /\ render = NoRender
    /\ effect = NoEffect

NextSetPanelCatalog == \E panels \in [PanelTypes -> 0..MaxModule] : SetPanelCatalog(panels)

NextRender == \E layout \in Layouts : Render(layout)

NextRenderTile == \E id \in PanelIds \cup {NoId} : RenderTile(id)

LayoutNext ==
    \/ NextSetPanelCatalog
    \/ NextRender
    \/ NextRenderTile
    \/ Commit
    \/ ClearCache

SpecLayout == LayoutInit /\ [][LayoutNext]_vars

\* ======================================================================
\* Properties
\* ======================================================================
Impls == 1..Len(impls)

\* the call has got past tryCreateIndexedReader
Probed(c) == calls[c].reader # "unset"

\* C1: a source whose indexed reader initialises but reports no chunk index
\* or no channel is served by the streaming path and never by the indexed
\* delegate: every delegate chosen for it is a streaming one, and a call that
\* got the probe's answer has gone on to the streaming path (file: the
\* streaming delegate; url: the plain fetch). An indexed delegate exists only
\* for a source with chunk indexes and channels.
C1_EmptyIndexSelectsStreaming ==
    /\ \A i \in Impls :
         impls[i].kind = "indexed" => (src.indexOk /\ src.nChunks > 0 /\ src.nChannels > 0)
    /\ (src.indexOk /\ (src.nChunks = 0 \/ src.nChannels = 0)) =>
         /\ sourceImpl # 0 => impls[sourceImpl].kind = "streaming"
         /\ \A c \in CallIds :
              /\ Probed(c) => calls[c].reader = "none"
              /\ (Probed(c) /\ calls[c].pc # "awaitReader") =>
                    IF src.type = "file"
                    THEN calls[c].impl # 0 /\ impls[calls[c].impl].kind = "streaming"
                    ELSE calls[c].fetched

C1_Witness ==
    /\ src.indexOk /\ src.nChunks = 0 /\ src.nChannels > 0
    /\ calls[1].pc = "resolved"
    /\ sourceImpl # 0 /\ impls[sourceImpl].kind = "streaming"

\* C2: when McapIndexedReader.Initialize fails, the error is logged once per
\* attempt, the call goes on to the streaming path, and initialize() never
\* rejects with that error.
C2_MalformedIndexIsSoft ==
    ~src.indexOk =>
        /\ logged = Cardinality({c \in CallIds : Probed(c)})
        /\ \A c \in CallIds :
             /\ calls[c].error # ErrIndex
             /\ (calls[c].tried /\ calls[c].pc \notin {"awaitHandlers", "awaitIndexed"}
                   /\ calls[c].error # ErrHandlers) =>
                    /\ calls[c].reader = "none"
                    /\ calls[c].impl # 0 => impls[calls[c].impl].kind = "streaming"
                    /\ calls[c].pc \in {"awaitReader", "awaitFetch", "awaitImplInit",
                                        "resolved", "rejected"}
                    /\ calls[c].pc = "rejected" =>
                         calls[c].error \in {ErrFetch, ErrNoBody, ErrNoLength, ErrImplInit}

C2_Witness ==
    /\ ~src.indexOk
    /\ logged = 1
    /\ calls[1].pc = "resolved"
    /\ impls[calls[1].impl].kind = "streaming"

\* C3: a messageIterator() or getBackfillMessages() call made while
\* _sourceImpl is undefined fails with "Invariant: uninitialized",
\* messageIterator by throwing and getBackfillMessages by rejecting; nothing
\* is handed to a delegate.
C3_UninitializedFailsLoudly ==
    [][(lastOp' # lastOp /\ sourceImpl = 0) =>
          /\ lastOp'.outcome = ErrUninitialized
          /\ lastOp'.how = (IF lastOp'.op = "messageIterator" THEN "throw" ELSE "reject")
          /\ lastOp'.to = 0 /\ lastOp'.passed = 0]_vars

C3_Witness ==
    /\ lastOp.op = "getBackfillMessages"
    /\ lastOp.outcome = ErrUninitialized /\ lastOp.how = "reject"
    /\ sourceImpl = 0
    /\ calls[1].pc = "awaitReader"

\* C4: a messageIterator()/getBackfillMessages() call made while an
\* initialize() call is in flight (called, not settled) fails with
\* "Invariant: uninitialized" instead of being handed to a delegate.
C4_ConcurrentCallFailsFast ==
    [][(lastOp' # lastOp /\ \E c \in CallIds : InFlight(c)) =>
          lastOp'.outcome = ErrUninitialized]_vars

\* a call that has the fetch response in hand
GotResponse(c) ==
    /\ calls[c].fetched /\ calls[c].pc # "awaitFetch"
    /\ src.fetchOk

\* C5 as stated: a fetch response without a content-length makes
\* initialize() reject with the missing-length error, with no delegate built
\* from the response.
C5_MissingLengthError ==
    \A c \in CallIds :
        (src.type = "url" /\ ~src.hasLength /\ GotResponse(c)) =>
            /\ calls[c].pc = "rejected" /\ calls[c].error = ErrNoLength
            /\ calls[c].impl = 0 /\ ~calls[c].streamed

\* C5, amended: a fetch response without a content-length makes initialize()
\* reject, with the missing-length error when the response has a body and
\* with the unable-to-stream error when it has none; no delegate is built
\* from the response.
C5_MissingLengthRejects ==
    \A c \in CallIds :
        (src.type = "url" /\ ~src.hasLength /\ GotResponse(c)) =>
            /\ calls[c].pc = "rejected"
            /\ calls[c].error = (IF src.hasBody THEN ErrNoLength ELSE ErrNoBody)
            /\ calls[c].impl = 0 /\ ~calls[c].streamed

C5_Witness ==
    /\ src.type = "url" /\ src.hasBody /\ ~src.hasLength
    /\ calls[1].fetched
    /\ calls[1].pc = "rejected" /\ calls[1].error = ErrNoLength

Started == {c \in CallIds : calls[c].pc # "idle"}

\* C6 as stated: whatever the calls made on the instance, the first delegate
\* assigned to _sourceImpl stays there and no second delegate is built.
C6_DelegateNeverReplaced ==
    /\ sourceImpl \in {0, 1}
    /\ Len(impls) <= 1

\* C6, amended: one initialize() call builds at most one delegate, and
\* _sourceImpl is the delegate built last; with at most one initialize() call
\* made on the instance the delegate, once set, is never replaced and no
\* second one is built, whatever messageIterator()/getBackfillMessages()
\* calls are made. (A repeated initialize() builds and assigns a new one.)
C6_DelegateSelectedOncePerCall ==
    /\ \A c \in CallIds : Cardinality({i \in Impls : impls[i].by = c}) <= 1
    /\ \A i \in Impls : calls[impls[i].by].impl = i
    /\ sourceImpl = Len(impls)
    /\ Cardinality(Started) <= 1 => (sourceImpl \in {0, 1} /\ Len(impls) <= 1)

C6_Witness ==
    /\ Started = {1}
    /\ calls[1].pc = "resolved"
    /\ sourceImpl = 1
    /\ lastOp.outcome = "forwarded" /\ lastOp.to = 1

\* The phase of one initialize() call, in the words of the state machine
\* uninitialized -> probing -> {indexed, streaming} -> ready; "failed" is the
\* exit a rejection takes.
Phase(c) ==
    CASE calls[c].pc = "idle" -> "uninitialized"
      [] calls[c].pc \in {"awaitSlice", "awaitOpen", "awaitHandlers", "awaitIndexed",
                          "awaitReader", "awaitFetch"} -> "probing"
      [] calls[c].pc = "awaitImplInit" -> impls[calls[c].impl].kind
      [] calls[c].pc = "resolved" -> "ready"
      [] OTHER -> "failed"

PhaseOrder ==
    {<<"uninitialized", "probing">>, <<"probing", "indexed">>, <<"probing", "streaming">>,
     <<"indexed", "ready">>, <<"streaming", "ready">>,
     <<"probing", "failed">>, <<"indexed", "failed">>, <<"streaming", "failed">>}

\* C7: every initialize() call moves through uninitialized -> probing ->
\* {indexed, streaming} -> ready in that order (or leaves by rejecting); it
\* becomes ready only from indexed or streaming, only once the initialize()
\* of the one delegate it built has resolved, and with that delegate's result.
C7_PhasesAdvanceInOrder ==
    [][\A c \in CallIds :
          Phase(c)' # Phase(c) =>
             /\ <<Phase(c), Phase(c)'>> \in PhaseOrder
             /\ Phase(c)' = "ready" =>
                   /\ Cardinality({i \in 1..Len(impls') : impls'[i].by = c}) = 1
                   /\ impls'[calls'[c].impl].by = c
                   /\ impls'[calls'[c].impl].init = "ok"
                   /\ calls'[c].result = calls'[c].impl]_vars

C7_Witness ==
    /\ calls[1].pc = "resolved" /\ impls[calls[1].impl].kind = "indexed"
    /\ calls[2].pc = "awaitImplInit" /\ impls[calls[2].impl].init = "pending"

\* C8: for a file and for a url the indexed reader is tried first: a call
\* builds a streaming delegate, takes the file's stream or fetches the url as
\* a plain stream only after its tryCreateIndexedReader has returned
\* undefined.
C8_IndexedTriedFirst ==
    \A c \in CallIds :
        (calls[c].fetched \/ calls[c].streamed
           \/ (calls[c].impl # 0 /\ impls[calls[c].impl].kind = "streaming")) =>
            /\ calls[c].tried
            /\ calls[c].reader = "none"

C8_Witness ==
    /\ src.type = "url" /\ src.indexOk /\ src.nChannels = 0
    /\ calls[1].fetched /\ calls[1].streamed
    /\ calls[1].pc = "resolved"

\* the errors of a source that cannot be reached
Unreachable == {ErrNotReadable, ErrOpen, ErrFetch, ErrNoBody, ErrNoLength}

C10_FirstByteReadFirst ==
    src.type = "file" =>
        \A c \in CallIds :
            /\ (calls[c].pc = "awaitSlice"
                  \/ (~src.readOk /\ calls[c].pc # "idle")) =>
                  /\ ~calls[c].tried /\ calls[c].reader = "unset"
                  /\ ~calls[c].streamed /\ ~calls[c].fetched
                  /\ calls[c].impl = 0
                  /\ \A i \in Impls : impls[i].by # c
            /\ (~src.readOk /\ calls[c].pc \notin {"idle", "awaitSlice"}) =>
                  (calls[c].pc = "rejected" /\ calls[c].error = ErrNotReadable)

C10_Witness ==
    /\ src.type = "file" /\ ~src.readOk
    /\ calls[1].pc = "rejected" /\ calls[1].error = ErrNotReadable
    /\ impls = <<>> /\ logged = 0

\* C11: for a url, RemoteFileReadable.open() comes before everything else:
\* while it is pending, and after it has failed, the call has tried no indexed
\* reader, issued no fetch and built no delegate, and a failed open() rejects
\* initialize() with its error.
C11_OpenFirst ==
    src.type = "url" =>
        \A c \in CallIds :
            /\ (calls[c].pc = "awaitOpen"
                  \/ (~src.openOk /\ calls[c].pc # "idle")) =>
                  /\ ~calls[c].tried /\ calls[c].reader = "unset"
                  /\ ~calls[c].fetched /\ ~calls[c].streamed
                  /\ calls[c].impl = 0
                  /\ \A i \in Impls : impls[i].by # c
            /\ (~src.openOk /\ calls[c].pc \notin {"idle", "awaitOpen"}) =>
                  (calls[c].pc = "rejected" /\ calls[c].error = ErrOpen)

C11_Witness ==
    /\ src.type = "url" /\ ~src.openOk
    /\ calls[1].pc = "rejected" /\ calls[1].error = ErrOpen
    /\ impls = <<>> /\ logged = 0

\* C12: once _sourceImpl is set, a messageIterator(opt) or
\* getBackfillMessages(args) call is handed to that one delegate with the
\* argument as given, and the facade answers as the delegate does
\* (messageIterator returns its iterator, getBackfillMessages settles like its
\* promise), whichever kind the delegate is; no facade state changes.
C12_PassThrough ==
    [][(lastOp' # lastOp /\ sourceImpl # 0) =>
          /\ lastOp'.outcome = "forwarded"
          /\ lastOp'.to = sourceImpl
          /\ lastOp'.passed = lastOp'.arg
          /\ lastOp'.how = (IF lastOp'.op = "messageIterator" THEN "return" ELSE "resolve")
          /\ UNCHANGED <<src, calls, impls, sourceImpl, logged>>]_vars

C12_Witness ==
    /\ sourceImpl # 0 /\ impls[sourceImpl].kind = "streaming"
    /\ lastOp.op = "getBackfillMessages"
    /\ lastOp.to = sourceImpl /\ lastOp.passed = lastOp.arg /\ lastOp.arg # 0

\* ---- the indexed delegate's contract ------------------------------------
TimeOf(i) == file.recs[i].time

TopicOfRec(i) == TopicOf(file.recs[i].chan)

Yielded == {rd.out[n] : n \in 1..Len(rd.out)}

\* every record of the file the arguments ask for, in time order
AllWanted(a) == InTimeOrder(file, {i \in RecIds(file) : Wanted(file, i, a)})

LastYielded(out, topic) ==
    {out[n] : n \in {m \in 1..Len(out) :
                        /\ TopicOf(file.recs[out[m]].chan) = topic
                        /\ \A l \in (m + 1)..Len(out) :
                              TopicOf(file.recs[out[l]].chan) # topic}}

C15_ZeroWidthRange ==
    (rd.op = "messageIterator" /\ rd.status = "done" /\ rd.args.start = rd.args.end) =>
        /\ Yielded = {i \in RecIds(file) :
                        /\ TimeOf(i) = rd.args.end
                        /\ rd.args.filter => TopicOfRec(i) \in rd.args.topics}
        /\ Len(rd.out) = Cardinality(Yielded)

\* a zero-width iteration without filter that yielded a record at T from a
\* file that also holds a record at another time
C15_Witness ==
    /\ rd.op = "messageIterator" /\ rd.status = "done" /\ ~rd.args.filter
    /\ rd.args.start = rd.args.end
    /\ Yielded # {}
    /\ \E i \in RecIds(file) : TimeOf(i) # rd.args.end

\* C16: an iteration that reaches a chunk of unregistered compression fails
\* at that chunk, with every wanted record of the chunks before it yielded and
\* nothing of that chunk or a later one; an iteration made on the same reader
\* after the failure that meets no such chunk yields all it was asked for.
C16_FailsAtTheChunk ==
    /\ (rd.op = "messageIterator" /\ rd.status = "error") =>
          /\ rd.failedAt \in 1..ChunkCount(file)
          /\ ~file.known[rd.failedAt]
          /\ Intersects(file, rd.failedAt, rd.args)
          /\ Yielded = {i \in RecIds(file) :
                          file.chunkOf[i] < rd.failedAt /\ Wanted(file, i, rd.args)}
    /\ (rd.op = "messageIterator" /\ rd.status = "done" /\ rd.afterError) =>
          rd.out = AllWanted(rd.args)

\* an iteration made after a failed one has yielded the first chunk's records
\* and fails at the second chunk
C16_Witness ==
    /\ rd.op = "messageIterator" /\ rd.status = "error" /\ rd.afterError
    /\ rd.failedAt = 2
    /\ Yielded # {}

C18_OlderEntriesRemoved ==
    act.pc = "returned" =>
        /\ act.valid \in DOMAIN store.tree
        /\ DOMAIN store.tree = {k \in act.searched : ~IsLessThan(k, act.valid)}
        /\ store.image = store.tree[act.valid].image
        /\ store.annotationsByTopic = store.tree[act.valid].annotationsByTopic

\* a set was published while an older synchronized entry was in the tree,
\* and that entry is gone
C18_Witness ==
    /\ act.pc = "returned"
    /\ IsLessThan(act.oldest, act.valid)
    /\ act.oldest \notin DOMAIN store.tree
    /\ act.valid \in DOMAIN store.tree

\* C19: as long as the events of a frame leave no entry of the tree
\* synchronized, the store publishes the image and the annotationsByTopic it
\* published before the frame.
C19_KeepsPreviousState ==
    act.pc = "sync" => Published(store) = act.was

\* C20: setImageTopic(t) with t other than the current image topic leaves the
\* image undefined, annotationsByTopic empty and the tree empty; with t the
\* current image topic it leaves the state as it is.
C20_SetImageTopicClears ==
    [][\A imageTopic \in ImageTopicNames :
          SetImageTopic(imageTopic) =>
              IF store.imageTopic # imageTopic
              THEN /\ store'.image = NoImage
                   /\ store'.annotationsByTopic = EmptyMap
                   /\ store'.tree = EmptyTree
              ELSE UNCHANGED <<store, shared>>]_vars

\* ---- the facade: failures on the way to a delegate -----------------------
\* a call that tryCreateIndexedReader has taken past loadDecompressHandlers
PastHandlers(c) == calls[c].tried /\ calls[c].pc # "awaitHandlers"

\* C25: when loadDecompressHandlers() fails, every initialize() call that got
\* as far as loading the handlers is rejected with that error; the failure is
\* not logged and turned into "no indexed reader" the way a malformed index
\* is, no streaming source is read or fetched in its place, and no delegate
\* is built or assigned to _sourceImpl.
C25_HandlersFailureRejects ==
    \A c \in CallIds :
        (~src.handlersOk /\ PastHandlers(c)) =>
            /\ calls[c].pc = "rejected" /\ calls[c].error = ErrHandlers
            /\ calls[c].reader = "unset" /\ logged = 0
            /\ ~calls[c].fetched /\ ~calls[c].streamed
            /\ calls[c].impl = 0 /\ sourceImpl = 0 /\ impls = <<>>

C25_Witness ==
    /\ ~src.handlersOk /\ src.indexOk /\ src.type = "url"
    /\ calls[1].tried /\ calls[1].pc = "rejected" /\ calls[1].error = ErrHandlers
    /\ sourceImpl = 0

\* the initialize() calls rejected because their delegate's initialize() was
RejectedByDelegate ==
    {c \in CallIds : calls[c].pc = "rejected" /\ calls[c].error = ErrImplInit}

\* C26: when the initialize() of the delegate a call has built rejects, the
\* call rejects with the delegate's error and leaves _sourceImpl as it is, set:
\* every messageIterator()/getBackfillMessages() made after such a rejection
\* is handed to the delegate in _sourceImpl, which is the rejected call's own
\* delegate unless another initialize() call has built one, and none fails
\* with "Invariant: uninitialized".
C26_FailedDelegateStaysAssigned ==
    [][/\ \A c \in CallIds :
            (InitializeReturns(c) /\ impls[calls[c].impl].init = "failed") =>
                /\ calls'[c].pc = "rejected" /\ calls'[c].error = ErrImplInit
                /\ sourceImpl # 0 /\ sourceImpl' = sourceImpl
                /\ impls' = impls
       /\ \A c \in RejectedByDelegate :
            /\ sourceImpl # 0
            /\ (\A d \in CallIds \ {c} : calls[d].impl = 0) => sourceImpl = calls[c].impl
            /\ lastOp' # lastOp =>
                  /\ lastOp'.outcome = "forwarded"
                  /\ lastOp'.to = sourceImpl
                  /\ lastOp'.how = (IF lastOp'.op = "messageIterator"
                                    THEN "return" ELSE "resolve")]_vars

C26_Witness ==
    /\ RejectedByDelegate = {1} /\ Started = {1}
    /\ impls[calls[1].impl].init = "failed"
    /\ sourceImpl = calls[1].impl
    /\ lastOp.op = "getBackfillMessages"
    /\ lastOp.outcome = "forwarded" /\ lastOp.to = calls[1].impl

\* C22: when frame() returns from the synchronized path with a set published,
\* no event of the batch that carries an image or annotations stamped not
\* older than the published entry has been left out of the tree, wherever in
\* the batch the set was completed.
C22_NoMessageLost == act.pc = "returned" => ~act.lost

\* C23: between the store's actions, when the store is in synchronized mode
\* (synchronize set, annotation topics configured) and publishes an image,
\* every published annotation carries the image's stamp and the topics of
\* the published annotationsByTopic are exactly the configured
\* annotationTopics.
C23_PublishedSetConsistent ==
    (/\ act.pc = "idle"
     /\ store.synchronize /\ Len(store.annotationTopics) > 0
     /\ store.image # NoImage) =>
        /\ \A tp \in DOMAIN store.annotationsByTopic :
              \A n \in 1..Len(store.annotationsByTopic[tp]) :
                 store.annotationsByTopic[tp][n].stamp = store.image.stamp
        /\ DOMAIN store.annotationsByTopic =
              {store.annotationTopics[n] : n \in 1..Len(store.annotationTopics)}

\* line 220: the test that sends addMessages down the synchronized path
SynchronizedMode(state) == state.synchronize /\ Len(state.annotationTopics) > 0

\* C24: frame() takes the synchronized path exactly when synchronize is set
\* and annotationTopics is not empty. On the other path every event of the
\* batch acts on the result so far: an image event replaces the image, an
\* annotations event replaces the annotations of its topic and leaves the
\* other topics as they are, any other event changes nothing; so the result
\* holds the last image and the last annotations per topic of the batch over
\* what was there before. The Maps held by the tree (the published Map among
\* them) are not written to, and the published Map is a new one from the
\* first event that counts on.
C24_AddMessagesPaths ==
    [][/\ Frame => act'.pc = (IF SynchronizedMode(store) THEN "sync" ELSE "plain")
       /\ act'.pc \in {"sync", "returned"} => SynchronizedMode(store')
       /\ act'.pc = "plain" => ~SynchronizedMode(store')
       /\ \A event \in MessageEvents :
            NextPlain(event) =>
              /\ store'.image = (IF event.kind = "image"
                                 THEN [stamp |-> event.stamp] ELSE store.image)
              /\ DOMAIN store'.annotationsByTopic =
                    DOMAIN store.annotationsByTopic \cup
                       (IF event.kind = "annotations" THEN {event.topic} ELSE {})
              /\ \A tp \in DOMAIN store'.annotationsByTopic :
                    store'.annotationsByTopic[tp] =
                       (IF event.kind = "annotations" /\ event.topic = tp
                        THEN <<[stamp |-> event.stamp, topic |-> tp]>>
                        ELSE store.annotationsByTopic[tp])
              /\ store'.tree = store.tree
              /\ store'.imageTopic = store.imageTopic
              /\ store'.annotationTopics = store.annotationTopics
              /\ store'.synchronize = store.synchronize
              /\ event.kind = "other" => (store' = store /\ shared' = shared)
              /\ event.kind # "other" => shared' = NoStamp
       /\ (FrameReturns /\ act.pc = "plain" /\ ~act.copied) => store' = store]_vars

\* a frame on the plain path has replaced both the image and the annotations
\* of topic a that a synchronized frame had published, and the tree item
\* that was published still holds its own
C24_Witness ==
    /\ act.pc = "plain" /\ act.copied
    /\ shared = NoStamp
    /\ \E k \in DOMAIN store.tree :
          /\ store.tree[k].image # NoImage /\ store.tree[k].image # store.image
          /\ "a" \in DOMAIN store.tree[k].annotationsByTopic
          /\ "a" \in DOMAIN store.annotationsByTopic
          /\ store.tree[k].annotationsByTopic["a"] # store.annotationsByTopic["a"]
          /\ "b" \in DOMAIN store.annotationsByTopic
          /\ "b" \notin DOMAIN store.tree[k].annotationsByTopic

\* ---- the panel layout ----------------------------------------------------
\* C21: every tile is rendered with a component made from the catalog that
\* the render it is rendered in has read, never with one that was cached
\* under an earlier catalog, whatever the order of renders, renderTile
\* calls and the effect that clears the cache; and the cache never holds the
\* component shown for an unknown panel type.
C21_NoComponentOfPreviousCatalog ==
    /\ \A id \in DOMAIN render.out : render.out[id].from = render.panelCatalog.id
    /\ \A type \in DOMAIN panelComponentCache :
          /\ panelComponentCache[type].kind = "lazy"
          /\ panelComponentCache[type].module # 0

====
